---- MODULE Spec2Model ----
(***************************************************************************)
(* A model of git-code-golf.py: the aggregation of code.golf solutions     *)
(* into a target mapping (compute_final_state), the reconciliation of the  *)
(* mapping against the directory tree at the output root (compute_changes) *)
(* and the application of the resulting changeset (update_files).          *)
(*                                                                         *)
(* Python strings are sequences of one-character strings, so that string   *)
(* formatting, str.split, sorted() and the text-mode newline translation   *)
(* of open() are computed rather than assumed.  A location on disk is the  *)
(* sequence of entry names below the output root.                          *)
(***************************************************************************)
EXTENDS Integers, Sequences, FiniteSets, TLC

VARIABLES
    fs,                       \* the directory tree at the output root
    data,                     \* export_data's result: data["solutions"]
    file_structure,           \* --structure
    only_category,            \* --only-scoring
    collapse_same_categories, \* not --no-scoring-name
    paths,                    \* compute_final_state: `path` of each solution
    state,                    \* main: the target mapping
    should_delete,            \* main: not --no-delete
    changes,                  \* main: the changeset (or the exception raised)
    pending,                  \* update_files: the operations not yet executed
    before,                   \* the tree compute_changes read
    resumed,                  \* this invocation follows an abandoned apply
    pc                        \* position in main()

vars == <<fs, data, file_structure, only_category, collapse_same_categories,
          paths, state, should_delete, changes, pending, before, resumed, pc>>

(***************************************************************************)
(* Bounds of the model.                                                    *)
(***************************************************************************)
MaxEntries == 2     \* entries on disk before the first invocation
MaxTargets == 2     \* paths of a target mapping handed to compute_changes
MaxSolutions == 2   \* solutions of an export

(***************************************************************************)
(* Strings.                                                                *)
(***************************************************************************)
\* The characters in use, in code point order.
Alphabet ==
    <<"\n", "\r", "-", ".", "/", "0", "1", "2",
      "A", "B", "C", "D", "E", "I", "L", "M", "N", "R", "S",
      "a", "b", "c", "d", "e", "g", "h", "i", "l", "m", "n", "o", "p", "r",
      "s", "t", "u", "x", "y">>

Ord(c) == CHOOSE i \in 1..Len(Alphabet) : Alphabet[i] = c

RECURSIVE StrLess(_, _)
\* s < t on Python strings: lexicographic by code point.
StrLess(s, t) ==
    IF t = <<>> THEN FALSE
    ELSE IF s = <<>> THEN TRUE
    ELSE IF Head(s) = Head(t) THEN StrLess(Tail(s), Tail(t))
    ELSE Ord(Head(s)) < Ord(Head(t))

RECURSIVE sorted(_)
\* sorted(set of strings)
sorted(S) ==
    IF S = {} THEN <<>>
    ELSE LET m == CHOOSE x \in S : \A y \in S : x = y \/ StrLess(x, y)
         IN  <<m>> \o sorted(S \ {m})

RECURSIVE split(_, _)
\* s.split(sep) for a one-character separator
split(s, sep) ==
    IF s = <<>> THEN << <<>> >>
    ELSE LET rest == split(Tail(s), sep)
         IN  IF Head(s) = sep THEN << <<>> >> \o rest
             ELSE << <<Head(s)>> \o Head(rest) >> \o Tail(rest)

RECURSIVE join(_, _)
\* sep.join(parts)
join(parts, sep) ==
    IF Len(parts) = 0 THEN <<>>
    ELSE IF Len(parts) = 1 THEN parts[1]
    ELSE parts[1] \o <<sep>> \o join(Tail(parts), sep)

None == <<>>


(***************************************************************************)
(* The file system below the output root: a function from locations        *)
(* (sequences of entry names) to regular files and directories.            *)
(***************************************************************************)
output == <<>>

File(content) == [kind |-> "file", content |-> content]
Dir == [kind |-> "dir", content |-> <<>>]

IsPrefix(p, q) == Len(p) <= Len(q) /\ SubSeq(q, 1, Len(p)) = p
dirname(p) == SubSeq(p, 1, Len(p) - 1)

\* os.path.exists, os.path.isfile, os.path.isdir, os.listdir
exists(fsys, p) == p = output \/ p \in DOMAIN fsys
isfile(fsys, p) == p \in DOMAIN fsys /\ fsys[p].kind = "file"
isdir(fsys, p) == p = output \/ (p \in DOMAIN fsys /\ fsys[p].kind = "dir")
listdir(fsys, d) ==
    {p[Len(p)] : p \in {q \in DOMAIN fsys : Len(q) = Len(d) + 1 /\ IsPrefix(d, q)}}

RECURSIVE TextRead(_)
\* open(file_path, "r").read(): universal newlines, "\r\n" and "\r" read as "\n"
TextRead(bytes) ==
    IF bytes = <<>> THEN <<>>
    ELSE IF Head(bytes) = "\r"
         THEN IF Len(bytes) > 1 /\ bytes[2] = "\n"
              THEN <<"\n">> \o TextRead(Tail(Tail(bytes)))
              ELSE <<"\n">> \o TextRead(Tail(bytes))
         ELSE <<Head(bytes)>> \o TextRead(Tail(bytes))

RECURSIVE TextWrite(_)
\* open(path, "w").write(content): "\n" is written as os.linesep ("\n" on POSIX)
TextWrite(content) ==
    IF content = <<>> THEN <<>>
    ELSE (IF Head(content) = "\n" THEN <<"\n">> ELSE <<Head(content)>>)
         \o TextWrite(Tail(content))

\* shutil.rmtree, os.remove, os.mkdir, open(path, "w").write
rmtree(fsys, p) == [q \in {r \in DOMAIN fsys : ~IsPrefix(p, r)} |-> fsys[q]]
remove(fsys, p) == [q \in DOMAIN fsys \ {p} |-> fsys[q]]
mkdir(fsys, p) == [q \in DOMAIN fsys \cup {p} |-> IF q = p THEN Dir ELSE fsys[q]]
write(fsys, p, content) ==
    [q \in DOMAIN fsys \cup {p} |-> IF q = p THEN File(TextWrite(content)) ELSE fsys[q]]

\* when the calls above succeed instead of raising OSError
CanMkdir(fsys, p) == ~exists(fsys, p) /\ isdir(fsys, dirname(p))
CanWrite(fsys, p) == ~isdir(fsys, p) /\ isdir(fsys, dirname(p))

(***************************************************************************)
(* compute_changes                                                         *)
(***************************************************************************)
DEFAULT_IGNORE_LIST ==
    { <<".", "g", "i", "t">>,
      <<".", "g", "i", "t", "i", "g", "n", "o", "r", "e">>,
      <<".", "g", "i", "t", "h", "u", "b">>,
      <<"R", "E", "A", "D", "M", "E", ".", "m", "d">>,
      <<"L", "I", "C", "E", "N", "S", "E">> }

NoError == [kind |-> "none", path |-> <<>>]

\* the four lists of compute_changes, and the exception that ended it (if any)
EmptyChanges ==
    [to_delete |-> <<>>, files_to_update |-> <<>>, files_to_create |-> <<>>,
     directories_to_create |-> <<>>, error |-> NoError]

Raise(acc, kind, path) == [acc EXCEPT !.error = [kind |-> kind, path |-> path]]
Raised(acc) == acc.error.kind # "none"

\* mutation: a directory only when every path routes two levels deeper
IsDirectoryOffByOne(files_data) ==
    \A file_data \in files_data : Len(file_data.parts) > 2

IsDirectory(files_data) == \A file_data \in files_data : Len(file_data.parts) > 1

\* a needed name every target path routes deeper through
NeededDirectory(fsys, sd, file_path, acc) ==
    IF ~exists(fsys, file_path)
    THEN [acc EXCEPT !.directories_to_create = Append(@, file_path)]
    ELSE IF ~isdir(fsys, file_path)
         THEN IF ~sd
              THEN Raise(acc, "Exception: exists and is not a directory", file_path)
              ELSE [acc EXCEPT !.to_delete = Append(@, file_path),
                               !.directories_to_create = Append(@, file_path)]
         ELSE acc

\* mutation: a leaf occupied by a directory is replaced whatever should_delete
NeededFileAlwaysReplaces(fsys, sd, file_path, files_data, acc) ==
    IF Cardinality(files_data) # 1
    THEN Raise(acc, "AssertionError", file_path)
    ELSE LET content == (CHOOSE file_data \in files_data : TRUE).content
             entry == [path |-> file_path, content |-> content]
         IN  IF ~exists(fsys, file_path)
             THEN [acc EXCEPT !.files_to_create = Append(@, entry)]
             ELSE IF isfile(fsys, file_path)
                  THEN IF TextRead(fsys[file_path].content) # content
                       THEN [acc EXCEPT !.files_to_update = Append(@, entry)]
                       ELSE acc
                  ELSE [acc EXCEPT !.to_delete = Append(@, file_path),
                                   !.files_to_create = Append(@, entry)]

\* a needed name that is a leaf of the target mapping
NeededFile(fsys, sd, file_path, files_data, acc) ==
    IF Cardinality(files_data) # 1
    THEN Raise(acc, "AssertionError", file_path)
    ELSE LET content == (CHOOSE file_data \in files_data : TRUE).content
             entry == [path |-> file_path, content |-> content]
         IN  IF ~exists(fsys, file_path)
             THEN [acc EXCEPT !.files_to_create = Append(@, entry)]
             ELSE IF isfile(fsys, file_path)
                  THEN IF TextRead(fsys[file_path].content) # content
                       THEN [acc EXCEPT !.files_to_update = Append(@, entry)]
                       ELSE acc
                  ELSE IF ~sd
                       THEN Raise(acc, "Exception: exists and is not a file", file_path)
                       ELSE [acc EXCEPT !.to_delete = Append(@, file_path),
                                        !.files_to_create = Append(@, entry)]

\* mutation: the ignore list is not consulted
NotNeededNoIgnoreList(sd, file, file_path, acc) ==
    IF sd THEN [acc EXCEPT !.to_delete = Append(@, file_path)] ELSE acc

\* mutation: should_delete is not consulted
NotNeededNoFlag(sd, file, file_path, acc) ==
    IF file \notin DEFAULT_IGNORE_LIST
    THEN [acc EXCEPT !.to_delete = Append(@, file_path)]
    ELSE acc

\* a name present on disk only
NotNeeded(sd, file, file_path, acc) ==
    IF sd /\ file \notin DEFAULT_IGNORE_LIST
    THEN [acc EXCEPT !.to_delete = Append(@, file_path)]
    ELSE acc

RECURSIVE LoopFiles(_, _, _, _, _, _)
\* for file in all_files: ...   (r carries the lists and `explore`)
LoopFiles(fsys, sd, current_directory, needed, all_files, r) ==
    IF all_files = <<>> \/ Raised(r.acc) THEN r
    ELSE LET file == Head(all_files)
             file_path == Append(current_directory, file)
             next ==
                 IF file \in DOMAIN needed
                 THEN IF IsDirectory(needed[file])
                      THEN LET acc == NeededDirectory(fsys, sd, file_path, r.acc)
                           IN  [acc |-> acc,
                                explore |-> IF Raised(acc) THEN r.explore
                                            ELSE Append(r.explore, file)]
                      ELSE [acc |-> NeededFile(fsys, sd, file_path, needed[file], r.acc),
                            explore |-> r.explore]
                 ELSE [acc |-> NotNeeded(sd, file, file_path, r.acc),
                       explore |-> r.explore]
         IN  LoopFiles(fsys, sd, current_directory, needed, Tail(all_files), next)

RECURSIVE walk_recursive(_, _, _, _, _)
RECURSIVE LoopExplore(_, _, _, _, _, _)

walk_recursive(fsys, sd, current_directory, children, acc) ==
    IF Raised(acc) THEN acc
    ELSE IF exists(fsys, current_directory) /\ ~isdir(fsys, current_directory)
         THEN \* os.listdir of a regular file
              Raise(acc, "NotADirectoryError", current_directory)
         ELSE LET current_directory_files ==
                      IF exists(fsys, current_directory)
                      THEN listdir(fsys, current_directory) ELSE {}
                  heads == {child.parts[1] : child \in children}
                  needed == [head \in heads |->
                                {child \in children : child.parts[1] = head}]
                  all_files == sorted(current_directory_files \cup heads)
                  r == LoopFiles(fsys, sd, current_directory, needed, all_files,
                                 [acc |-> acc, explore |-> <<>>])
              IN  LoopExplore(fsys, sd, current_directory, needed, r.explore, r.acc)

\* for file in explore: walk_recursive(...)
LoopExplore(fsys, sd, current_directory, needed, explore, acc) ==
    IF explore = <<>> \/ Raised(acc) THEN acc
    ELSE LoopExplore(fsys, sd, current_directory, needed, Tail(explore),
             walk_recursive(fsys, sd, Append(current_directory, Head(explore)),
                 {[parts |-> Tail(child.parts), content |-> child.content] :
                      child \in needed[Head(explore)]},
                 acc))

\* compute_changes(state, should_delete, output) on the tree fsys; an
\* exception leaves no changeset
compute_changes(st, sd, fsys) ==
    LET acc == walk_recursive(fsys, sd, output,
                   {[parts |-> split(path, "/"), content |-> st[path].content] :
                        path \in DOMAIN st},
                   EmptyChanges)
    IN  IF Raised(acc) THEN [EmptyChanges EXCEPT !.error = acc.error] ELSE acc

IsEmptyChanges(c) ==
    /\ c.to_delete = <<>>
    /\ c.directories_to_create = <<>>
    /\ c.files_to_update = <<>>
    /\ c.files_to_create = <<>>


(***************************************************************************)
(* The inputs of the reconciliation: the trees found at the output root    *)
(* and the target mappings handed to compute_changes.                      *)
(***************************************************************************)
NameA == <<"a">>
NameLicense == <<"L", "I", "C", "E", "N", "S", "E">>

Names == {NameA, NameLicense}

\* the locations of the model: one or two levels below the output root
FsPaths == {<<n>> : n \in Names} \cup {<<n, m>> : n, m \in Names}

\* file contents: plain, ending in a line feed, ending in a carriage return
Contents == { <<"x">>, <<"x", "\n">>, <<"x", "\r">> }

Nodes == {Dir} \cup {File(c) : c \in Contents}

Trees ==
    {t \in UNION {[D -> Nodes] :
                    D \in {E \in SUBSET FsPaths : Cardinality(E) <= MaxEntries}} :
        \A p \in DOMAIN t : Len(p) > 1 => isdir(t, dirname(p))}

TargetPaths == {join(p, "/") : p \in FsPaths}

\* no path of S routes through another path of S
PrefixFree(S) ==
    \A p, q \in S : p # q => ~IsPrefix(split(p, "/"), split(q, "/"))

TargetMappings ==
    UNION {[D -> {[content |-> c, date |-> <<"0", "1">>] : c \in Contents}] :
             D \in {E \in SUBSET TargetPaths :
                        Cardinality(E) <= MaxTargets /\ PrefixFree(E)}}

EmptyMapping == [path \in {} |-> [content |-> <<>>, date |-> <<>>]]

(***************************************************************************)
(* main(), from the target mapping on: compute_changes, then update_files  *)
(* one filesystem operation at a time.                                     *)
(***************************************************************************)
AfterCompute(c) ==
    IF Raised(c) THEN "failed" ELSE IF IsEmptyChanges(c) THEN "done" ELSE "apply"

AfterStep(c) == IF IsEmptyChanges(c) THEN "done" ELSE "apply"

Unfetched ==
    /\ data = <<>>
    /\ file_structure = "lhe"
    /\ only_category = None
    /\ collapse_same_categories = TRUE
    /\ paths = <<>>

Init ==
    /\ fs \in Trees
    /\ Unfetched
    /\ state = EmptyMapping
    /\ should_delete = TRUE
    /\ changes = EmptyChanges
    /\ pending = EmptyChanges
    /\ before = fs
    /\ resumed = FALSE
    /\ pc = "start"

\* changes = compute_changes(state, not no_delete, output_path)
Reconcile(target, sd) ==
    /\ pc = "start"
    /\ state' = target
    /\ should_delete' = sd
    /\ changes' = compute_changes(target, sd, fs)
    /\ pending' = changes'
    /\ before' = fs
    /\ resumed' = FALSE
    /\ pc' = AfterCompute(changes')
    /\ UNCHANGED <<fs, data, file_structure, only_category,
                   collapse_same_categories, paths>>

\* a subsequent invocation with the same export and the same flags
Rerun ==
    /\ pc \in {"done", "aborted"}
    /\ changes' = compute_changes(state, should_delete, fs)
    /\ pending' = changes'
    /\ before' = fs
    /\ resumed' = (pc = "aborted")
    /\ pc' = AfterCompute(changes')
    /\ UNCHANGED <<fs, data, file_structure, only_category,
                   collapse_same_categories, paths, state, should_delete>>

Step(fs2, pending2) ==
    /\ fs' = fs2
    /\ pending' = pending2
    /\ pc' = AfterStep(pending2)
    /\ UNCHANGED <<data, file_structure, only_category, collapse_same_categories,
                   paths, state, should_delete, changes, before, resumed>>

\* an operation of update_files raises: the remaining steps are abandoned
Abandon ==
    /\ pc' = "aborted"
    /\ UNCHANGED <<fs, data, file_structure, only_category,
                   collapse_same_categories, paths, state, should_delete,
                   changes, pending, before, resumed>>

\* for file in to_delete
DeleteStep ==
    /\ pc = "apply"
    /\ pending.to_delete # <<>>
    /\ LET file == Head(pending.to_delete)
           rest == [pending EXCEPT !.to_delete = Tail(@)]
       IN  IF isdir(fs, file) THEN Step(rmtree(fs, file), rest)
           ELSE IF exists(fs, file) THEN Step(remove(fs, file), rest)
           ELSE Abandon

\* for file in directories_to_create
MkdirStep ==
    /\ pc = "apply"
    /\ pending.to_delete = <<>>
    /\ pending.directories_to_create # <<>>
    /\ LET file == Head(pending.directories_to_create)
           rest == [pending EXCEPT !.directories_to_create = Tail(@)]
       IN  IF CanMkdir(fs, file) THEN Step(mkdir(fs, file), rest) ELSE Abandon

\* for file_data in files_to_update
UpdateStep ==
    /\ pc = "apply"
    /\ pending.to_delete = <<>>
    /\ pending.directories_to_create = <<>>
    /\ pending.files_to_update # <<>>
    /\ LET file_data == Head(pending.files_to_update)
           rest == [pending EXCEPT !.files_to_update = Tail(@)]
       IN  IF CanWrite(fs, file_data.path)
           THEN Step(write(fs, file_data.path, file_data.content), rest)
           ELSE Abandon

\* for file_data in files_to_create
CreateStep ==
    /\ pc = "apply"
    /\ pending.to_delete = <<>>
    /\ pending.directories_to_create = <<>>
    /\ pending.files_to_update = <<>>
    /\ pending.files_to_create # <<>>
    /\ LET file_data == Head(pending.files_to_create)
           rest == [pending EXCEPT !.files_to_create = Tail(@)]
       IN  IF CanWrite(fs, file_data.path)
           THEN Step(write(fs, file_data.path, file_data.content), rest)
           ELSE Abandon

\* the environment fails the next operation (permission error, disk full)
IOFailure ==
    /\ pc = "apply"
    /\ Abandon

Next ==
    \/ \E target \in TargetMappings, sd \in BOOLEAN : Reconcile(target, sd)
    \/ DeleteStep
    \/ MkdirStep
    \/ UpdateStep
    \/ CreateStep
    \/ IOFailure
    \/ Rerun

Spec == Init /\ [][Next]_vars


(***************************************************************************)
(* get_solution_path and compute_final_state                               *)
(***************************************************************************)
Perl == <<"p", "e", "r", "l">>
Prolog == <<"p", "r", "o", "l", "o", "g">>
Python == <<"p", "y", "t", "h", "o", "n">>

\* LANGUAGE_NAMES_EXTENSIONS[language_code][1]
Extension(language_code) ==
    CASE language_code = Perl -> <<"p", "l">>
      [] language_code = Prolog -> <<"p", "l">>
      [] language_code = Python -> <<"p", "y">>

Bytes == <<"b", "y", "t", "e", "s">>
Chars == <<"c", "h", "a", "r", "s">>

\* FileStructure, by value
FileStructure == {"lhe", "hle", "hse", "he"}

get_solution_path(structure, hole_code, language_code, category) ==
    LET extension == Extension(language_code)
        category_suffix == IF category # <<>> THEN <<"-">> \o category ELSE <<>>
    IN  CASE structure = "lhe" ->
               language_code \o <<"/">> \o hole_code \o category_suffix
                   \o <<".">> \o extension
          [] structure = "hle" ->
               hole_code \o <<"/">> \o language_code \o category_suffix
                   \o <<".">> \o extension
          [] structure = "hse" ->
               hole_code \o <<"/">> \o <<"s", "o", "l", "u", "t", "i", "o", "n">>
                   \o category_suffix \o <<".">> \o extension
          [] structure = "he" ->
               hole_code \o category_suffix \o <<".">> \o extension

\* codes_per_solution[(hole_code, language_code)]
codes_per_solution(solutions, hole_code, language_code) ==
    {solutions[i].code :
        i \in {j \in 1..Len(solutions) :
                  solutions[j].hole = hole_code /\ solutions[j].lang = language_code}}

\* mutation: the group's diversity is not consulted
EffectiveCategoryIgnoresDiversity(collapse, unique, only, category) ==
    IF collapse /\ only = None THEN None ELSE category

\* the category handed to get_solution_path
EffectiveCategory(collapse, unique, only, category) ==
    IF collapse /\ unique /\ only = None THEN None ELSE category

\* mutation: date < state[path]["date"], an equal timestamp overwrites
SupersededStrictly(st, path, date) ==
    path \in DOMAIN st /\ StrLess(date, st[path].date)

\* path in state and date <= state[path]["date"]
Superseded(st, path, date) ==
    path \in DOMAIN st /\ (date = st[path].date \/ StrLess(date, st[path].date))

RECURSIVE LoopSolutions(_, _, _, _, _, _)
\* for solution in solutions: ...   (r carries `state` and each `path`)
LoopSolutions(structure, only, collapse, solutions, i, r) ==
    IF i > Len(solutions) THEN r
    ELSE LET solution == solutions[i]
             unique == Cardinality(codes_per_solution(solutions, solution.hole,
                                                      solution.lang)) = 1
             path == get_solution_path(structure, solution.hole, solution.lang,
                         EffectiveCategory(collapse, unique, only, solution.scoring))
             next ==
                 IF only # None /\ only # solution.scoring
                 THEN [state |-> r.state, paths |-> Append(r.paths, None)]
                 ELSE IF Superseded(r.state, path, solution.submitted)
                      THEN [state |-> r.state, paths |-> Append(r.paths, path)]
                      ELSE [state |->
                               [q \in DOMAIN r.state \cup {path} |->
                                   IF q = path
                                   THEN [content |-> solution.code,
                                         date |-> solution.submitted]
                                   ELSE r.state[q]],
                            paths |-> Append(r.paths, path)]
         IN  LoopSolutions(structure, only, collapse, solutions, i + 1, next)

compute_final_state(structure, only, collapse, solutions) ==
    LoopSolutions(structure, only, collapse, solutions, 1,
                  [state |-> EmptyMapping, paths |-> <<>>])

(***************************************************************************)
(* main() with --dry-run: export, aggregate, compute and print the diff.   *)
(***************************************************************************)
\* (hole, lang) of the solutions: two languages that share an extension for
\* one hole, two holes for one language
Groups == { << <<"a">>, Perl >>, << <<"a">>, Prolog >>, << <<"b">>, Perl >> }
Categories == {Bytes, Chars}
Dates == { <<"0", "1">>, <<"0", "2">> }
Codes == { <<"A">>, <<"B">> }

Solutions ==
    {[hole |-> g[1], lang |-> g[2], scoring |-> c, submitted |-> d, code |-> k] :
        g \in Groups, c \in Categories, d \in Dates, k \in Codes}

Exports == UNION {[1..n -> Solutions] : n \in 0..MaxSolutions}

EmptyTree == [p \in {} |-> Dir]

InitDryRun ==
    /\ fs = EmptyTree
    /\ data \in Exports
    /\ file_structure \in FileStructure
    /\ only_category \in {None} \cup Categories
    /\ collapse_same_categories \in BOOLEAN
    /\ paths = <<>>
    /\ state = EmptyMapping
    /\ should_delete = TRUE
    /\ changes = EmptyChanges
    /\ pending = EmptyChanges
    /\ before = fs
    /\ resumed = FALSE
    /\ pc = "exported"

\* state = compute_final_state(structure, only_scoring, not no_scoring_name, data)
Aggregate ==
    /\ pc = "exported"
    /\ LET r == compute_final_state(file_structure, only_category,
                                    collapse_same_categories, data)
       IN  state' = r.state /\ paths' = r.paths
    /\ pc' = "aggregated"
    /\ UNCHANGED <<fs, data, file_structure, only_category,
                   collapse_same_categories, should_delete, changes, pending,
                   before, resumed>>

\* changes = compute_changes(state, not no_delete, output_path), printed only
Preview(sd) ==
    /\ pc = "aggregated"
    /\ should_delete' = sd
    /\ changes' = compute_changes(state, sd, fs)
    /\ pc' = "previewed"
    /\ UNCHANGED <<fs, data, file_structure, only_category,
                   collapse_same_categories, paths, state, pending, before,
                   resumed>>

NextDryRun ==
    \/ Aggregate
    \/ \E sd \in BOOLEAN : Preview(sd)

SpecDryRun == InitDryRun /\ [][NextDryRun]_vars


(***************************************************************************)
(* Vocabulary of the properties.                                           *)
(***************************************************************************)
Range(seq) == {seq[i] : i \in 1..Len(seq)}
Last(p) == p[Len(p)]

Parts(path) == split(path, "/")
Entry(st, path) == [path |-> Parts(path), content |-> st[path].content]

\* the locations the target mapping needs as files, and as directories
Leaves(st) == {Parts(path) : path \in DOMAIN st}
NeededDirs(st) == UNION {{SubSeq(p, 1, k) : k \in 1..(Len(p) - 1)} : p \in Leaves(st)}
Needed(st) == Leaves(st) \cup NeededDirs(st)

\* a leaf occupied by a non-file; a needed directory occupied by a non-directory
LeafConflicts(fsys, st) == {p \in Leaves(st) : exists(fsys, p) /\ ~isfile(fsys, p)}
DirConflicts(fsys, st) == {p \in NeededDirs(st) : exists(fsys, p) /\ ~isdir(fsys, p)}
Conflicts(fsys, st) == LeafConflicts(fsys, st) \cup DirConflicts(fsys, st)

\* every target path is a regular file holding exactly the target content
TargetOnDisk(fsys, st) ==
    \A path \in DOMAIN st :
        /\ isfile(fsys, Parts(path))
        /\ fsys[Parts(path)].content = st[path].content

\* the same, as far as a text-mode read can tell
TargetOnDiskAsRead(fsys, st) ==
    \A path \in DOMAIN st :
        /\ isfile(fsys, Parts(path))
        /\ TextRead(fsys[Parts(path)].content) = TextRead(st[path].content)

Computed == pc \in {"apply", "done", "failed", "aborted"}
Aggregated == pc \in {"aggregated", "previewed"}

Indices == 1..Len(data)
SameGroup(i, j) == data[i].hole = data[j].hole /\ data[i].lang = data[j].lang
Uniform(i) ==
    \A j, k \in Indices :
        SameGroup(i, j) /\ SameGroup(i, k) => data[j].code = data[k].code

EndsWith(s, t) == Len(t) <= Len(s) /\ SubSeq(s, Len(s) - Len(t) + 1, Len(s)) = t
SuffixOf(i, category) ==
    <<"-">> \o category \o <<".">> \o Extension(data[i].lang)

(***************************************************************************)
(* Properties of compute_changes and update_files (under Spec).            *)
(***************************************************************************)

\* C1: when compute_changes returned a changeset and update_files applied it
\* to completion, every path of the target mapping is a regular file on disk
\* whose content equals the mapping's content.
C1_Convergence == pc = "done" => TargetOnDisk(fs, state)

\* C2: after a changeset was applied in full, reconciling the same target
\* mapping with the same deletion setting yields an empty changeset.
C2_Idempotence ==
    pc = "done" => compute_changes(state, should_delete, fs) = EmptyChanges

\* C3: with deletion enabled a type conflict does not fail compute_changes:
\* the conflicting entry is scheduled for deletion and the needed file
\* (directory) for creation, and below a conflicting directory name the
\* target files are scheduled for creation.
C3_ConflictDegradesToRecreate ==
    (Computed /\ should_delete) =>
        /\ Conflicts(before, state) # {} => ~Raised(changes)
        /\ \A path \in DOMAIN state :
              Parts(path) \in LeafConflicts(before, state) =>
                  /\ Parts(path) \in Range(changes.to_delete)
                  /\ Entry(state, path) \in Range(changes.files_to_create)
        /\ \A d \in DirConflicts(before, state) :
              /\ d \in Range(changes.to_delete)
              /\ d \in Range(changes.directories_to_create)
              /\ \A path \in DOMAIN state :
                    IsPrefix(d, Parts(path)) =>
                        Entry(state, path) \in Range(changes.files_to_create)

\* C4: with deletion disabled a type conflict, in either direction, makes
\* compute_changes raise an error naming a conflicting path; no changeset is
\* returned and the tree is left as it was.
C4_ConflictIsFatalWithoutDeletion ==
    (Computed /\ ~should_delete) =>
        LET leaves == LeafConflicts(before, state)
            dirs == DirConflicts(before, state)
        IN  leaves \cup dirs # {} =>
              /\ pc = "failed"
              /\ IsEmptyChanges(changes)
              /\ fs = before
              /\ \/ /\ changes.error.kind = "Exception: exists and is not a file"
                    /\ changes.error.path \in leaves
                 \/ /\ changes.error.kind = "Exception: exists and is not a directory"
                    /\ changes.error.path \in dirs

C4_Witness ==
    /\ pc = "failed"
    /\ ~should_delete
    /\ LeafConflicts(before, state) # {}
    /\ DirConflicts(before, state) # {}

\* C5: an entry on disk that the target mapping does not need and whose name
\* is on the ignore list is never scheduled for deletion; a needed path with
\* such a name is created, updated or replaced like any other.
C5_IgnoreListExemption ==
    Computed =>
        /\ \A p \in Range(changes.to_delete) :
              Last(p) \in DEFAULT_IGNORE_LIST => p \in Needed(state)
        /\ ~Raised(changes) =>
              \A path \in DOMAIN state :
                  LET p == Parts(path)
                      entry == Entry(state, path)
                  IN  Last(p) \in DEFAULT_IGNORE_LIST =>
                        /\ ~exists(before, p) =>
                              entry \in Range(changes.files_to_create)
                        /\ isfile(before, p) =>
                              (entry \in Range(changes.files_to_update)
                                  <=> TextRead(before[p].content) # entry.content)
                        /\ isdir(before, p) =>
                              /\ should_delete
                              /\ p \in Range(changes.to_delete)
                              /\ entry \in Range(changes.files_to_create)
        /\ ~Raised(changes) =>
              \A d \in NeededDirs(state) :
                  Last(d) \in DEFAULT_IGNORE_LIST =>
                      (d \in Range(changes.directories_to_create)
                          <=> ~exists(before, d))

C5_Witness ==
    /\ Computed
    /\ should_delete
    /\ \E p \in DOMAIN before, q \in Range(changes.to_delete) :
          /\ Last(p) \in DEFAULT_IGNORE_LIST
          /\ p \notin Needed(state)
          /\ dirname(q) = dirname(p)

\* C8: with deletion disabled to_delete is empty, and whatever existed before
\* the run and is not a target path is still there, unchanged, during and
\* after update_files.
C8_NothingRemovedWithoutDeletion ==
    (Computed /\ ~should_delete) =>
        /\ changes.to_delete = <<>>
        /\ LET leaves == Leaves(state)
           IN  \A p \in DOMAIN before :
                   p \notin leaves => p \in DOMAIN fs /\ fs[p] = before[p]

C8_Witness ==
    /\ pc = "done"
    /\ ~should_delete
    /\ ~IsEmptyChanges(changes)
    /\ \E p \in DOMAIN before :
          p \notin Needed(state) /\ Last(p) \notin DEFAULT_IGNORE_LIST

\* C9: update_files runs deletions, then directory creations, then updates,
\* then creations; after it stopped part-way, reconciling again with the same
\* mapping and deletion setting raises no error, and applying that changeset
\* in full leaves every target path a regular file with its target content.
C9_PartialApplyIsRerunnable ==
    /\ pc = "apply" =>
          /\ pending.directories_to_create # changes.directories_to_create
                => pending.to_delete = <<>>
          /\ pending.files_to_update # changes.files_to_update
                => pending.directories_to_create = <<>>
          /\ pending.files_to_create # changes.files_to_create
                => pending.files_to_update = <<>>
    /\ resumed =>
          /\ pc # "failed"
          /\ pc = "done" => TargetOnDisk(fs, state)

(***************************************************************************)
(* What convergence, idempotence and re-runnability come to once carriage  *)
(* returns are set aside (the text-mode read of compute_changes does not   *)
(* see them).                                                              *)
(***************************************************************************)
HasCarriageReturn(st) ==
    \E path \in DOMAIN st : "\r" \in Range(st[path].content)

ConvergenceAsRead == pc = "done" => TargetOnDiskAsRead(fs, state)

IdempotenceWithoutCarriageReturn ==
    (pc = "done" /\ ~HasCarriageReturn(state)) =>
        compute_changes(state, should_delete, fs) = EmptyChanges

RerunnableAsRead ==
    resumed => pc # "failed" /\ (pc = "done" => TargetOnDiskAsRead(fs, state))

(***************************************************************************)
(* Properties of compute_final_state (under SpecDryRun).                   *)
(***************************************************************************)

\* C6: each path of the target mapping holds the content and timestamp of the
\* record with the greatest timestamp among the non-filtered records that
\* resolve to it, the first such record in iteration order on a tie.
C6_LatestWinsTiesToFirstSeen ==
    Aggregated =>
        /\ Len(paths) = Len(data)
        /\ \A i \in Indices :
              paths[i] = None <=>
                  (only_category # None /\ data[i].scoring # only_category)
        /\ DOMAIN state = {paths[i] : i \in Indices} \ {None}
        /\ \A path \in DOMAIN state :
              \E w \in Indices :
                  /\ paths[w] = path
                  /\ \A j \in Indices \ {w} :
                        paths[j] = path =>
                            \/ StrLess(data[j].submitted, data[w].submitted)
                            \/ data[j].submitted = data[w].submitted /\ w < j
                  /\ state[path] = [content |-> data[w].code,
                                    date |-> data[w].submitted]

C6_Witness ==
    /\ Aggregated
    /\ \E i, j \in Indices :
          /\ i < j
          /\ paths[i] # None
          /\ paths[i] = paths[j]
          /\ data[i].submitted = data[j].submitted
          /\ data[i].code # data[j].code

\* C7: with collapsing enabled and no category filter, every record of a
\* (hole, lang) group whose records all have the same content resolves to a
\* path without category suffix; otherwise every record keeps its own suffix.
C7_DiversityCollapse ==
    Aggregated =>
        \A i \in Indices :
            paths[i] # None =>
                IF collapse_same_categories /\ only_category = None /\ Uniform(i)
                THEN /\ paths[i] = get_solution_path(file_structure, data[i].hole,
                                                     data[i].lang, None)
                     /\ \A c \in Categories : ~EndsWith(paths[i], SuffixOf(i, c))
                ELSE /\ paths[i] = get_solution_path(file_structure, data[i].hole,
                                                     data[i].lang, data[i].scoring)
                     /\ EndsWith(paths[i], SuffixOf(i, data[i].scoring))

C7_Witness ==
    /\ Aggregated
    /\ collapse_same_categories
    /\ only_category = None
    /\ \E i, j \in Indices :
          /\ SameGroup(i, j)
          /\ data[i].scoring # data[j].scoring
          /\ Uniform(i)
          /\ paths[i] = paths[j]

====
